---- MODULE Spec2Model ----
(***************************************************************************)
(* Model of src/app.py: the check-in / check-out kiosk.                    *)
(*                                                                         *)
(* Text values (TEXT columns, CSV fields, form values) are sequences of    *)
(* one-character strings, so that str.strip() is modelled by what it does. *)
(* A value that can be absent (SQL NULL, Python None, fetchone() -> None)  *)
(* is the empty tuple <<>>; a present value x is the one-tuple <<x>>.      *)
(***************************************************************************)
EXTENDS Integers, Sequences, FiniteSets, TLC

\* ------------------------------------------------------------------ bounds
MaxRows == 2          \* data rows in the CSV file (after the header)
MaxClock == 2         \* last instant of the wall clock, in ticks
MaxRequests == 5      \* check-in requests received in one behaviour
MaxThreaded == 3      \* of these, the first ones may be served by interleaving threads
MaxThreads == 2       \* request threads of the web server
MaxPaired == 3        \* requests processed in both of two compared runs
MaxImports == 2       \* runs of the main block (process starts)
MaxCalls == 3         \* record_login calls (rows the helper adds)

TicksPerSecond == 2   \* clock ticks per second (timestamps are whole seconds)

Threads == 1..MaxThreads

\* --------------------------------------------------------- absent values
NULL == <<>>
None == <<>>

\* ------------------------------------------------------------- str.strip
Whitespace == {" ", "\t"}

RECURSIVE LStrip(_)
LStrip(s) ==
    IF s = <<>> THEN s
    ELSE IF Head(s) \in Whitespace THEN LStrip(Tail(s)) ELSE s

RECURSIVE RStrip(_)
RStrip(s) ==
    IF s = <<>> THEN s
    ELSE IF s[Len(s)] \in Whitespace THEN RStrip(SubSeq(s, 1, Len(s) - 1)) ELSE s

strip(s) == RStrip(LStrip(s))

\* ------------------------------------------------------------ the CSV file
\* A parsed CSV row is a sequence of fields; column c (0-based) is row[c+1].
NumColumns == 11
Filler == <<"x">>

Col(row, c) == row[c + 1]

MkRow(last, first, sid, waiver) ==
    [k \in 1..NumColumns |->
        IF k = 1 THEN last
        ELSE IF k = 2 THEN first
        ELSE IF k = 4 THEN sid
        ELSE IF k = 11 THEN waiver
        ELSE Filler]

HeaderRow == MkRow(<<"L">>, <<"F">>, <<"I">>, <<"W">>)
RowA == MkRow(<<"S">>, <<"A">>, <<"7">>, <<"1">>)
RowB == MkRow(<<"S", " ">>, <<" ", "B">>, <<" ", "7">>, <<"0">>)
RowC == MkRow(<<"T">>, <<"C">>, <<"8">>, <<"1", " ">>)
RowD == MkRow(<<"T">>, <<"D">>, <<"8">>, <<" ">>)
RowShort == <<<<"U">>, <<"E">>, Filler, <<"9">>>>

Rows == {RowA, RowB, RowC, RowD, RowShort}

RECURSIVE SeqsUpTo(_, _)
SeqsUpTo(S, n) ==
    IF n = 0 THEN {<<>>}
    ELSE LET shorter == SeqsUpTo(S, n - 1)
         IN  shorter \cup {Append(q, x) : q \in shorter, x \in S}

\* The empty file (no header line) and every header + at most MaxRows rows.
Files == {<<>>} \cup {<<HeaderRow>> \o q : q \in SeqsUpTo(Rows, MaxRows)}

\* Rosters with two students: both signed; one signed and one with a blank
\* waiver flag; one with the flag "0" and one signed.
Rosters ==
    {<<HeaderRow, RowA, RowC>>, <<HeaderRow, RowA, RowD>>, <<HeaderRow, RowB, RowC>>}

\* Values of the form field student_id: absent, or a string.
FormValues == {None, <<<<"7">>>>, <<<<"8">>>>, <<<<" ", "7">>>>}

VARIABLES
    file,       \* contents of CSV_Path, as parsed rows (header first)
    students,   \* table students: sequence of rows in insertion order
    logins,     \* table logins: sequence of rows in insertion order
    imports,    \* number of runs of import_csv so far
    phase,      \* "down": process not running; "up": app.run() is serving
    reqs,       \* per thread: position in checkin() and its local variables
    clock,      \* wall clock, in ticks
    resp,       \* per thread: the last response returned
    nreq,       \* per form value: number of requests answered so far
    logins2,    \* a second run of the same requests: its logins table,
    clock2,     \*   its wall clock,
    resp2,      \*   and its responses
    sqlite_limit,   \* was SQLite built with SQLITE_ENABLE_UPDATE_DELETE_LIMIT:
                    \* "on", "off", or "unknown" until a statement needs it
    ret         \* outcome of the last call of record_login / record_logout

\* What the second run and the helper functions add to the state.
aux == <<logins2, clock2, resp2, sqlite_limit, ret>>

vars == <<file, students, logins, imports, phase, reqs, clock, resp, nreq, aux>>

\* ------------------------------------------------------------- import_csv
\* The values of the primary key column of students.
StudentIds(tbl) == {tbl[i].student_id : i \in 1..Len(tbl)}

\* Variant: student_id is not a key of the table, so no insert is ignored.
InsertNoKey(tbl, sid, first, last, waiver) ==
    Append(tbl, [student_id |-> sid, first_name |-> first, last_name |-> last,
                 waiver_signed |-> waiver])

\* Variant: INSERT OR REPLACE, a later row overwrites the existing one.
InsertOrReplace(tbl, sid, first, last, waiver) ==
    IF sid \in StudentIds(tbl)
    THEN [i \in 1..Len(tbl) |->
            IF tbl[i].student_id = sid
            THEN [student_id |-> sid, first_name |-> first, last_name |-> last,
                  waiver_signed |-> waiver]
            ELSE tbl[i]]
    ELSE Append(tbl, [student_id |-> sid, first_name |-> first, last_name |-> last,
                      waiver_signed |-> waiver])

\* INSERT OR IGNORE INTO students: skipped when the primary key exists.
InsertOrIgnore(tbl, sid, first, last, waiver) ==
    IF sid \in StudentIds(tbl) THEN tbl
    ELSE Append(tbl, [student_id |-> sid, first_name |-> first, last_name |-> last,
                      waiver_signed |-> waiver])

\* The body of the loop "for row in reader", over the rows that remain.
RECURSIVE ImportRows(_, _)
ImportRows(rows, tbl) ==
    IF rows = <<>> THEN tbl
    ELSE LET row == Head(rows)
             last_name == strip(Col(row, 0))
             first_name == strip(Col(row, 1))
             student_id == strip(Col(row, 3))
             waiver_signed == strip(Col(row, 10))
         IN  ImportRows(Tail(rows),
                        InsertOrIgnore(tbl, student_id, first_name, last_name, waiver_signed))

\* next(reader) raises on a file without a header line, row[10] raises on a
\* row with fewer than 11 fields; the exception leaves import_csv before
\* commit(), so nothing of the run is kept.
ImportRaises(f) ==
    \/ f = <<>>
    \/ \E i \in 2..Len(f) : Len(f[i]) < NumColumns

import_csv(f, tbl) ==
    IF ImportRaises(f) THEN tbl ELSE ImportRows(Tail(f), tbl)

\* ------------------------------------------------- statements of checkin
\* Variant: the instant is rounded up to the next second.
IsoSecondsCeil(c) == (c + TicksPerSecond - 1) \div TicksPerSecond

\* datetime.now().isoformat(timespec="seconds"): the instant cut to seconds.
IsoSeconds(c) == c \div TicksPerSecond

\* The first row of students whose student_id is sid.
FirstMatch(tbl, sid) ==
    CHOOSE i \in 1..Len(tbl) :
        /\ tbl[i].student_id = sid
        /\ \A j \in 1..(i - 1) : tbl[j].student_id # sid

\* The columns first_name, last_name, waiver_signed of a students row.
Columns(row) ==
    [first_name |-> row.first_name, last_name |-> row.last_name,
     waiver_signed |-> row.waiver_signed]

\* Variant: the form value is stripped before the lookup.
SelectStudentStripped(tbl, v) ==
    IF v # None /\ strip(v[1]) \in StudentIds(tbl)
    THEN <<Columns(tbl[FirstMatch(tbl, strip(v[1]))])>>
    ELSE <<>>

\* SELECT first_name, last_name, waiver_signed FROM students WHERE student_id = ?
\* followed by fetchone(): <<>> when no row matches (also for an absent value).
SelectStudent(tbl, v) ==
    IF v # None /\ v[1] \in StudentIds(tbl)
    THEN <<Columns(tbl[FirstMatch(tbl, v[1])])>>
    ELSE <<>>

\* Variant: only the literal "0" blocks.
WaiverBlockedZeroOnly(waiver) == waiver = <<"0">>

\* waiver_signed.strip() == "" or waiver_signed == "0"
WaiverBlocked(waiver) == strip(waiver) = <<>> \/ waiver = <<"0">>

OpenIds(tbl, sid) ==
    {tbl[i].id : i \in {j \in 1..Len(tbl) :
                          tbl[j].student_id = sid /\ tbl[j].logout_time = NULL}}

MaxOf(S) == CHOOSE m \in S : \A n \in S : n <= m

\* Variant: the filter reads logout_time IS NOT NULL.
SelectActiveClosed(tbl, sid) ==
    LET closed == {tbl[i].id : i \in {j \in 1..Len(tbl) :
                        tbl[j].student_id = sid /\ tbl[j].logout_time # NULL}}
    IN  IF closed = {} THEN <<>> ELSE <<MaxOf(closed)>>

\* Variant: the filter on logout_time is missing.
SelectActiveAnyRow(tbl, sid) ==
    LET mine == {tbl[i].id : i \in {j \in 1..Len(tbl) : tbl[j].student_id = sid}}
    IN  IF mine = {} THEN <<>> ELSE <<MaxOf(mine)>>

\* Variant: ORDER BY id ASC, the oldest open session.
SelectActiveOldest(tbl, sid) ==
    IF OpenIds(tbl, sid) = {} THEN <<>>
    ELSE <<CHOOSE m \in OpenIds(tbl, sid) : \A n \in OpenIds(tbl, sid) : m <= n>>

\* SELECT id FROM logins WHERE student_id = ? AND logout_time IS NULL
\* ORDER BY id DESC LIMIT 1, followed by fetchone().
SelectActive(tbl, sid) ==
    IF OpenIds(tbl, sid) = {} THEN <<>> ELSE <<MaxOf(OpenIds(tbl, sid))>>

\* Variant: the WHERE clause selects by the student of the row, not by id.
UpdateLogoutOfStudent(tbl, rid, t) ==
    LET sids == {tbl[i].student_id : i \in {j \in 1..Len(tbl) : tbl[j].id = rid}}
    IN  [i \in 1..Len(tbl) |->
            IF tbl[i].student_id \in sids
            THEN [tbl[i] EXCEPT !.logout_time = <<t>>] ELSE tbl[i]]

\* Variant: the logout is stamped by a clock one second behind (utcnow()
\* in a zone ahead of UTC) while the login is stamped by now().
UpdateLogoutUtc(tbl, rid, t) ==
    [i \in 1..Len(tbl) |->
        IF tbl[i].id = rid THEN [tbl[i] EXCEPT !.logout_time = <<t - 1>>] ELSE tbl[i]]

\* Variant: the update carries the guard AND login_time < ?.
UpdateLogoutIfLater(tbl, rid, t) ==
    [i \in 1..Len(tbl) |->
        IF tbl[i].id = rid /\ tbl[i].login_time[1] < t
        THEN [tbl[i] EXCEPT !.logout_time = <<t>>] ELSE tbl[i]]

\* Variant: the update carries the guard AND logout_time IS NULL.
UpdateLogoutIfOpen(tbl, rid, t) ==
    [i \in 1..Len(tbl) |->
        IF tbl[i].id = rid /\ tbl[i].logout_time = NULL
        THEN [tbl[i] EXCEPT !.logout_time = <<t>>] ELSE tbl[i]]

\* UPDATE logins SET logout_time = ? WHERE id = ?
UpdateLogout(tbl, rid, t) ==
    [i \in 1..Len(tbl) |->
        IF tbl[i].id = rid THEN [tbl[i] EXCEPT !.logout_time = <<t>>] ELSE tbl[i]]

\* id INTEGER PRIMARY KEY AUTOINCREMENT: one more than the largest id used.
NextId(tbl) == IF tbl = <<>> THEN 1 ELSE MaxOf({tbl[i].id : i \in 1..Len(tbl)}) + 1

\* Variant: the insert is guarded by the absence of an open row.
InsertLoginIfNoOpen(tbl, sid, t) ==
    IF OpenIds(tbl, sid) # {} THEN tbl
    ELSE Append(tbl, [id |-> NextId(tbl), student_id |-> sid,
                      login_time |-> <<t>>, logout_time |-> NULL])

\* INSERT INTO logins (student_id, login_time) VALUES (?, ?)
InsertLogin(tbl, sid, t) ==
    Append(tbl, [id |-> NextId(tbl), student_id |-> sid,
                 login_time |-> <<t>>, logout_time |-> NULL])

\* ------------------------------------------------------------- responses
NoResponse == [kind |-> "none", first_name |-> <<>>, last_name |-> <<>>, time |-> NULL]

NotFoundMsg == [kind |-> "not_found", first_name |-> <<>>, last_name |-> <<>>, time |-> NULL]

WaiverMsg(st) ==
    [kind |-> "waiver", first_name |-> st.first_name, last_name |-> st.last_name,
     time |-> NULL]

CheckedOutMsg(first, last, t) ==
    [kind |-> "OUT", first_name |-> first, last_name |-> last, time |-> <<t>>]

CheckedInMsg(first, last, t) ==
    [kind |-> "IN", first_name |-> first, last_name |-> last, time |-> <<t>>]

\* No helper function has been called.
NoCall == [call |-> "none", raised |-> FALSE, value |-> <<>>]

\* --------------------------------------------------------- thread state
Idle == [pc |-> "idle", student_id |-> None, first_name |-> <<>>, last_name |-> <<>>,
         active_session |-> <<>>, now |-> <<>>]

Total == LET RECURSIVE Sum(_)
             Sum(S) == IF S = {} THEN 0
                       ELSE LET x == CHOOSE y \in S : TRUE
                            IN  nreq[x] + Sum(S \ {x})
         IN  Sum(FormValues)

Answered(v) == nreq' = [nreq EXCEPT ![v] = @ + 1]

Init ==
    /\ file \in Files
    /\ students = <<>>
    /\ logins = <<>>
    /\ imports = 0
    /\ phase = "down"
    /\ reqs = [r \in Threads |-> Idle]
    /\ clock = 0
    /\ resp = [r \in Threads |-> NoResponse]
    /\ nreq = [v \in FormValues |-> 0]
    /\ logins2 = <<>>
    /\ clock2 = 0
    /\ resp2 = [r \in Threads |-> NoResponse]
    /\ sqlite_limit = "unknown"
    /\ ret = NoCall

\* The database is new and the CSV file is one of the rosters.
RosterInit == Init /\ file \in Rosters

\* The main block: initialize_database() keeps existing tables, import_csv()
\* loads the roster, app.run() serves. A raising import ends the process.
Boot ==
    /\ phase = "down"
    /\ imports < MaxImports
    /\ students' = import_csv(file, students)
    /\ imports' = imports + 1
    /\ phase' = IF ImportRaises(file) THEN "down" ELSE "up"
    /\ UNCHANGED <<file, logins, reqs, clock, resp, nreq>>

\* The process ends; requests in flight end with it. The database file stays.
Stop ==
    /\ phase = "up"
    /\ phase' = "down"
    /\ reqs' = [r \in Threads |-> Idle]
    /\ resp' = [r \in Threads |-> NoResponse]
    /\ UNCHANGED <<file, students, logins, imports, clock, nreq>>

Tick ==
    /\ clock < MaxClock
    /\ clock' = clock + 1
    /\ UNCHANGED <<file, students, logins, imports, phase, reqs, resp, nreq>>

\* checkin(), run to completion by thread r for form value v.
checkin(r, v) ==
    /\ phase = "up"
    /\ \A q \in Threads : reqs[q].pc = "idle"
    /\ Total < MaxRequests
    /\ LET student == SelectStudent(students, v)
       IN  IF student = <<>>
           THEN /\ resp' = [resp EXCEPT ![r] = NotFoundMsg]
                /\ UNCHANGED logins
           ELSE IF WaiverBlocked(student[1].waiver_signed)
           THEN /\ resp' = [resp EXCEPT ![r] = WaiverMsg(student[1])]
                /\ UNCHANGED logins
           ELSE LET active_session == SelectActive(logins, v[1])
                    now == IsoSeconds(clock)
                IN  IF active_session # <<>>
                    THEN /\ logins' = UpdateLogout(logins, active_session[1], now)
                         /\ resp' = [resp EXCEPT ![r] =
                                CheckedOutMsg(student[1].first_name, student[1].last_name, now)]
                    ELSE /\ logins' = InsertLogin(logins, v[1], now)
                         /\ resp' = [resp EXCEPT ![r] =
                                CheckedInMsg(student[1].first_name, student[1].last_name, now)]
    /\ Answered(v)
    /\ UNCHANGED <<file, students, imports, phase, reqs, clock>>

\* Variant: an unknown identifier is registered as a new student.
LookupRegisters(r, v) ==
    /\ phase = "up"
    /\ reqs[r].pc = "idle"
    /\ Total + Cardinality({q \in Threads : reqs[q].pc # "idle"}) < MaxThreaded
    /\ LET student == SelectStudent(students, v)
       IN  IF student = <<>>
           THEN /\ resp' = [resp EXCEPT ![r] = NotFoundMsg]
                /\ Answered(v)
                /\ students' = IF v = None THEN students
                               ELSE InsertOrIgnore(students, v[1], <<>>, <<>>, <<>>)
                /\ UNCHANGED reqs
           ELSE IF WaiverBlocked(student[1].waiver_signed)
           THEN /\ resp' = [resp EXCEPT ![r] = WaiverMsg(student[1])]
                /\ Answered(v)
                /\ UNCHANGED <<reqs, students>>
           ELSE /\ reqs' = [reqs EXCEPT ![r] =
                        [pc |-> "looked", student_id |-> v,
                         first_name |-> student[1].first_name,
                         last_name |-> student[1].last_name,
                         active_session |-> <<>>, now |-> <<>>]]
                /\ UNCHANGED <<resp, nreq, students>>
    /\ UNCHANGED <<file, logins, imports, phase, clock>>

\* ---- checkin() statement by statement, for threads that interleave ----
\* Lines 135-156: read the form value, look the student up, answer at once
\* when the student is unknown or the waiver is not signed.
Lookup(r, v) ==
    /\ phase = "up"
    /\ reqs[r].pc = "idle"
    /\ Total + Cardinality({q \in Threads : reqs[q].pc # "idle"}) < MaxThreaded
    /\ LET student == SelectStudent(students, v)
       IN  IF student = <<>>
           THEN /\ resp' = [resp EXCEPT ![r] = NotFoundMsg]
                /\ Answered(v)
                /\ UNCHANGED reqs
           ELSE IF WaiverBlocked(student[1].waiver_signed)
           THEN /\ resp' = [resp EXCEPT ![r] = WaiverMsg(student[1])]
                /\ Answered(v)
                /\ UNCHANGED reqs
           ELSE /\ reqs' = [reqs EXCEPT ![r] =
                        [pc |-> "looked", student_id |-> v,
                         first_name |-> student[1].first_name,
                         last_name |-> student[1].last_name,
                         active_session |-> <<>>, now |-> <<>>]]
                /\ UNCHANGED <<resp, nreq>>
    /\ UNCHANGED <<file, students, logins, imports, phase, clock>>

\* Lines 159-164: the open-session query and fetchone().
Query(r) ==
    /\ reqs[r].pc = "looked"
    /\ reqs' = [reqs EXCEPT ![r].pc = "queried",
                            ![r].active_session = SelectActive(logins, reqs[r].student_id[1])]
    /\ UNCHANGED <<file, students, logins, imports, phase, clock, resp, nreq>>

\* Lines 168 and 180: datetime.now() is read before the write is executed.
Stamp(r) ==
    /\ reqs[r].pc = "queried"
    /\ reqs' = [reqs EXCEPT ![r].pc = "stamped", ![r].now = <<IsoSeconds(clock)>>]
    /\ UNCHANGED <<file, students, logins, imports, phase, clock, resp, nreq>>

\* Lines 166-188: the branch on active_session, the write, commit, response.
Write(r) ==
    /\ reqs[r].pc = "stamped"
    /\ LET me == reqs[r]
           now == me.now[1]
       IN  IF me.active_session # <<>>
           THEN /\ logins' = UpdateLogout(logins, me.active_session[1], now)
                /\ resp' = [resp EXCEPT ![r] = CheckedOutMsg(me.first_name, me.last_name, now)]
           ELSE /\ logins' = InsertLogin(logins, me.student_id[1], now)
                /\ resp' = [resp EXCEPT ![r] = CheckedInMsg(me.first_name, me.last_name, now)]
    /\ Answered(reqs[r].student_id)
    /\ reqs' = [reqs EXCEPT ![r] = Idle]
    /\ UNCHANGED <<file, students, imports, phase, clock>>

\* A step of the served application: no second run, no helper call.
Solo(A) == A /\ UNCHANGED aux

Next ==
    \/ Solo(Boot)
    \/ Solo(Tick)
    \/ \E r \in Threads, v \in FormValues : Solo(Lookup(r, v))
    \/ \E r \in Threads : Solo(Query(r))
    \/ \E r \in Threads : Solo(Stamp(r))
    \/ \E r \in Threads : Solo(Write(r))

Spec == RosterInit /\ [][Next]_vars

\* One request at a time: each request runs to completion before the next.
SeqNext ==
    \/ Solo(Boot)
    \/ Solo(Tick)
    \/ \E r \in Threads, v \in FormValues : Solo(checkin(r, v))

SeqSpec == RosterInit /\ [][SeqNext]_vars

\* Threads interleave, or a request runs to completion while no other is in
\* flight.
RaceNext ==
    \/ Next
    \/ \E v \in FormValues : Solo(checkin(1, v))

RaceSpec == RosterInit /\ [][RaceNext]_vars

\* ---- two runs of the same requests, each with its own clock ----
Tick2 ==
    /\ clock2 < MaxClock
    /\ clock2' = clock2 + 1
    /\ UNCHANGED <<file, students, logins, imports, phase, reqs, clock, resp, nreq,
                   logins2, resp2, sqlite_limit, ret>>

\* checkin() run to completion in the second run, on its table and clock.
checkin2(r, v) ==
    /\ LET student == SelectStudent(students, v)
       IN  IF student = <<>>
           THEN /\ resp2' = [resp2 EXCEPT ![r] = NotFoundMsg]
                /\ UNCHANGED logins2
           ELSE IF WaiverBlocked(student[1].waiver_signed)
           THEN /\ resp2' = [resp2 EXCEPT ![r] = WaiverMsg(student[1])]
                /\ UNCHANGED logins2
           ELSE LET active_session == SelectActive(logins2, v[1])
                    now == IsoSeconds(clock2)
                IN  IF active_session # <<>>
                    THEN /\ logins2' = UpdateLogout(logins2, active_session[1], now)
                         /\ resp2' = [resp2 EXCEPT ![r] =
                                CheckedOutMsg(student[1].first_name, student[1].last_name, now)]
                    ELSE /\ logins2' = InsertLogin(logins2, v[1], now)
                         /\ resp2' = [resp2 EXCEPT ![r] =
                                CheckedInMsg(student[1].first_name, student[1].last_name, now)]
    /\ UNCHANGED clock2

\* The same request is processed in both runs, by the one worker thread.
PairCheckin(r, v) ==
    /\ Total < MaxPaired
    /\ checkin(r, v)
    /\ checkin2(r, v)
    /\ UNCHANGED <<sqlite_limit, ret>>

PairNext ==
    \/ Solo(Boot)
    \/ Solo(Tick)
    \/ Tick2
    \/ \E v \in FormValues : PairCheckin(1, v)

PairSpec == RosterInit /\ [][PairNext]_vars

\* The life of the process over any CSV file: started, stopped, started again.
LifeNext ==
    \/ Solo(Boot)
    \/ Solo(Stop)
    \/ Solo(Tick)

LifeSpec == Init /\ [][LifeNext]_vars

\* ---- the helpers record_login and record_logout, called directly ----
\* Arguments of the helpers: any text, a students row is not required.
HelperArgs == {<<"7">>, <<"8">>}

\* UPDATE logins SET logout_time = ? WHERE student_id = ? AND logout_time IS NULL
\* ORDER BY id DESC LIMIT 1, on a library that parses it: of the rows the
\* WHERE clause keeps, ordered by id descending, the first one is updated.
UpdateOrderLimit(tbl, sid, t) ==
    LET kept  == {i \in 1..Len(tbl) :
                     tbl[i].student_id = sid /\ tbl[i].logout_time = NULL}
        first == {i \in kept : \A j \in kept : tbl[j].id <= tbl[i].id}
    IN  [i \in 1..Len(tbl) |->
            IF i \in first THEN [tbl[i] EXCEPT !.logout_time = <<t>>] ELSE tbl[i]]

\* The ORDER BY / LIMIT tail of an UPDATE is parsed only by an SQLite library
\* compiled with SQLITE_ENABLE_UPDATE_DELETE_LIMIT. The library is picked up
\* at the first call and is the same one from then on.
LimitBuilds == IF sqlite_limit = "unknown" THEN {"on", "off"} ELSE {sqlite_limit}

record_login(sid) ==
    /\ Len(logins) < MaxCalls
    /\ logins' = InsertLogin(logins, sid, IsoSeconds(clock))
    /\ ret' = [call |-> "record_login", raised |-> FALSE, value |-> <<IsoSeconds(clock)>>]
    /\ UNCHANGED <<file, students, imports, phase, reqs, clock, resp, nreq,
                   logins2, clock2, resp2, sqlite_limit>>

\* With the tail parsed the update runs and is committed; without it
\* execute() raises sqlite3.OperationalError (near "ORDER": syntax error)
\* before commit(), and the table is left as it was.
record_logout(sid) ==
    /\ \E b \in LimitBuilds :
        /\ sqlite_limit' = b
        /\ IF b = "on"
           THEN /\ logins' = UpdateOrderLimit(logins, sid, IsoSeconds(clock))
                /\ ret' = [call |-> "record_logout", raised |-> FALSE,
                           value |-> <<IsoSeconds(clock)>>]
           ELSE /\ logins' = logins
                /\ ret' = [call |-> "record_logout", raised |-> TRUE, value |-> <<>>]
    /\ UNCHANGED <<file, students, imports, phase, reqs, clock, resp, nreq,
                   logins2, clock2, resp2>>

HelperNext ==
    \/ Solo(Tick)
    \/ \E sid \in HelperArgs : record_login(sid)
    \/ \E sid \in HelperArgs : record_logout(sid)

HelperSpec == RosterInit /\ [][HelperNext]_vars

\* ================================================================ claims
OpenRows(sid) ==
    {i \in 1..Len(logins) : logins[i].student_id = sid /\ logins[i].logout_time = NULL}

RowsOf(sid) == {i \in 1..Len(logins) : logins[i].student_id = sid}

Known(v) == v # None /\ \E i \in 1..Len(students) : students[i].student_id = v[1]

\* The students row of a known identifier.
RowOf(v) == students[CHOOSE i \in 1..Len(students) : students[i].student_id = v[1]]

Unsigned(v) == Known(v) /\ RowOf(v).waiver_signed \in {<<>>, <<"0">>}

Signed(v) == Known(v) /\ RowOf(v).waiver_signed \notin {<<>>, <<"0">>}

\* C1: with requests processed one at a time, starting from an empty logins
\* table, every student has at most one login record whose logout timestamp
\* is null, in every reachable state.
C1_AtMostOneOpen ==
    \A i, j \in 1..Len(logins) :
        (/\ logins[i].student_id = logins[j].student_id
         /\ logins[i].logout_time = NULL
         /\ logins[j].logout_time = NULL) => i = j

\* A student who checked in, out and in again: one open record after a closed one.
C1_Witness ==
    \E v \in FormValues :
        /\ Signed(v)
        /\ Cardinality(OpenRows(v[1])) = 1
        /\ Cardinality(RowsOf(v[1])) = 2

\* C2: two requests of one signed student that both ran the open-session
\* query while no session was open both insert: a thread whose query found
\* no open session inserts a new open record and answers "checked IN",
\* whatever the table holds by then and without disturbing the other thread.
C2_BothInsert ==
    [][\A r \in Threads :
          (Write(r) /\ reqs[r].active_session = <<>>) =>
              /\ Len(logins') = Len(logins) + 1
              /\ SubSeq(logins', 1, Len(logins)) = logins
              /\ logins'[Len(logins')].student_id = reqs[r].student_id[1]
              /\ logins'[Len(logins')].logout_time = NULL
              /\ resp'[r].kind = "IN"
              /\ \A q \in Threads \ {r} : reqs'[q] = reqs[q]]_vars

\* Both requests answered "checked IN" and the student has two open records.
C2_Witness ==
    \E v \in FormValues :
        /\ Signed(v)
        /\ nreq[v] = 2
        /\ Cardinality(OpenRows(v[1])) = 2
        /\ Len(logins) = 2
        /\ \A r \in Threads : reqs[r].pc = "idle" /\ resp[r].kind = "IN"

\* C3: a request of a student whose waiver flag is "" or "0" is answered with
\* the waiver message and leaves the logins table as it was, in any state;
\* no thread ever gets past the waiver check for such a student.
C3_WaiverBlocks ==
    /\ [](\A r \in Threads : reqs[r].pc # "idle" => ~Unsigned(reqs[r].student_id))
    /\ [][\A r \in Threads, v \in FormValues :
            (Lookup(r, v) /\ Unsigned(v)) =>
                /\ resp'[r] = [kind |-> "waiver",
                               first_name |-> RowOf(v).first_name,
                               last_name |-> RowOf(v).last_name,
                               time |-> NULL]
                /\ logins' = logins
                /\ reqs'[r].pc = "idle"]_vars

\* The waiver message is given while another student has an open session.
C3_Witness ==
    \E r \in Threads :
        /\ resp[r].kind = "waiver"
        /\ \E i \in 1..Len(logins) : logins[i].logout_time = NULL
        /\ \E v \in FormValues : Unsigned(v) /\ nreq[v] >= 2

\* C4: a request whose identifier matches no row of students is answered
\* "Student ID not found" and leaves students and logins unchanged.
C4_NotFound ==
    [][\A r \in Threads, v \in FormValues :
          (Lookup(r, v) /\ ~Known(v)) =>
              /\ resp'[r] = NotFoundMsg
              /\ students' = students
              /\ logins' = logins
              /\ reqs' = reqs]_vars

\* "Not found" is answered for a present but unknown identifier while both
\* tables hold rows.
C4_Witness ==
    \E r \in Threads :
        /\ resp[r].kind = "not_found"
        /\ students # <<>>
        /\ logins # <<>>
        /\ \E v \in FormValues : v # None /\ ~Known(v) /\ nreq[v] >= 1

\* C5: for a signed student with no open session, one check-in request adds
\* exactly one login record (that student's identifier, the current time as
\* login timestamp, a null logout timestamp, a fresh id), changes no existing
\* record, and answers "checked IN at <login time>".
C5_CheckIn ==
    [][\A r \in Threads, v \in FormValues :
          (checkin(r, v) /\ Signed(v) /\ OpenRows(v[1]) = {}) =>
              /\ Len(logins') = Len(logins) + 1
              /\ SubSeq(logins', 1, Len(logins)) = logins
              /\ logins'[Len(logins')].student_id = v[1]
              /\ logins'[Len(logins')].login_time = <<clock \div TicksPerSecond>>
              /\ logins'[Len(logins')].logout_time = NULL
              /\ \A i \in 1..Len(logins) : logins[i].id # logins'[Len(logins')].id
              /\ resp'[r] = [kind |-> "IN",
                             first_name |-> RowOf(v).first_name,
                             last_name |-> RowOf(v).last_name,
                             time |-> logins'[Len(logins')].login_time]]_vars

\* A student checked in late (second 1) while the table held records of
\* both students.
C5_Witness ==
    \E r \in Threads :
        /\ resp[r].kind = "IN"
        /\ resp[r].time = <<1>>
        /\ Len(logins) >= 3
        /\ logins[Len(logins)].logout_time = NULL
        /\ logins[Len(logins)].login_time = <<1>>
        /\ \E i \in 1..Len(logins) : logins[i].student_id # logins[Len(logins)].student_id

\* C6: for a signed student with exactly one open session, one check-in
\* request sets the logout timestamp of that record to the current time,
\* creates no record, changes no other record, and answers
\* "checked OUT at <logout time>".
C6_CheckOut ==
    [][\A r \in Threads, v \in FormValues :
          (checkin(r, v) /\ Signed(v) /\ Cardinality(OpenRows(v[1])) = 1) =>
              \E i \in OpenRows(v[1]) :
                  /\ logins' = [logins EXCEPT ![i].logout_time = <<clock \div TicksPerSecond>>]
                  /\ resp'[r] = [kind |-> "OUT",
                                 first_name |-> RowOf(v).first_name,
                                 last_name |-> RowOf(v).last_name,
                                 time |-> <<clock \div TicksPerSecond>>]]_vars

\* A student checked out of the second session in second 1; the first
\* session, closed in second 0, is as it was.
C6_Witness ==
    \E r \in Threads, v \in FormValues :
        /\ Signed(v)
        /\ resp[r].kind = "OUT"
        /\ resp[r].time = <<1>>
        /\ Cardinality(RowsOf(v[1])) = 2
        /\ OpenRows(v[1]) = {}
        /\ \E i, j \in RowsOf(v[1]) :
               i < j /\ logins[i].logout_time = <<0>> /\ logins[j].logout_time = <<1>>

\* The login records of student sid, in insertion order.
RecordsOf(sid) == SelectSeq(logins, LAMBDA rec : rec.student_id = sid)

C7_Counts ==
    \A v \in FormValues :
        Signed(v) =>
            LET recs == RecordsOf(v[1])
                N == nreq[v]
            IN  /\ Len(recs) = (N + 1) \div 2
                /\ \A i \in 1..(Len(recs) - 1) : recs[i].logout_time # NULL
                /\ Len(recs) > 0 =>
                       (recs[Len(recs)].logout_time = NULL <=> N % 2 = 1)

C7_Alternates ==
    \A r \in Threads, v \in FormValues :
        (checkin(r, v) /\ Signed(v)) =>
            resp'[r].kind = (IF nreq[v] % 2 = 0 THEN "IN" ELSE "OUT")

C7_NeverStuck ==
    \A v \in FormValues :
        (Signed(v) /\ phase = "up" /\ Total < MaxRequests) =>
            \E r \in Threads : ENABLED checkin(r, v)

\* C7: a signed student who starts with no login records has, after N
\* requests processed one at a time (requests of others in between),
\* exactly ceil(N/2) records, all closed when N is even and all but the
\* newest closed when N is odd; the answers alternate IN, OUT, IN, ...;
\* and a further request of the student can always be processed.
C7_Toggle ==
    /\ [](C7_Counts /\ C7_NeverStuck)
    /\ [][C7_Alternates]_vars

\* One student made three requests and another one made one in between.
C7_Witness ==
    \E v, w \in FormValues :
        /\ v # w
        /\ Signed(v) /\ Signed(w)
        /\ nreq[v] = 3 /\ nreq[w] = 1
        /\ Len(RecordsOf(v[1])) = 2
        /\ logins[2].student_id = w[1]

\* C8: a run of the roster import after an earlier run with the same file
\* leaves the students table exactly as the earlier run left it.
C8_ImportIdempotent ==
    [][(Boot /\ imports >= 1) => students' = students]_vars

\* The import ran twice on a file that names one identifier in two rows.
C8_Witness ==
    /\ imports = 2
    /\ phase = "up"
    /\ Len(file) = 3
    /\ strip(Col(file[2], 3)) = strip(Col(file[3], 3))
    /\ file[2] # file[3]
    /\ Len(students) = 1

\* C9: no step of a check-in request inserts, changes or deletes a row of
\* students; while the server is up the table is the one the roster import
\* produced from the file.
C9_StudentsFrame ==
    /\ [](phase = "up" => students = import_csv(file, <<>>))
    /\ [][((\E r \in Threads, v \in FormValues : Lookup(r, v) \/ checkin(r, v))
            \/ (\E r \in Threads : Query(r) \/ Stamp(r) \/ Write(r)))
          => students' = students]_vars

\* All four outcomes have been answered and the roster is still in place.
C9_Witness ==
    /\ phase = "up"
    /\ Len(students) = 2
    /\ \E v \in FormValues : Unsigned(v) /\ nreq[v] >= 1
    /\ \E v \in FormValues : ~Known(v) /\ nreq[v] >= 1
    /\ \E v \in FormValues : Signed(v) /\ nreq[v] >= 2

\* C10: with requests processed one at a time, no step deletes a login
\* record or changes its id, student identifier or login timestamp, and a
\* logout timestamp changes only from null to a value: a closed record is
\* never reopened or re-stamped.
C10_RecordsStable ==
    [][/\ Len(logins') >= Len(logins)
       /\ \A i \in 1..Len(logins) :
            /\ logins'[i].id = logins[i].id
            /\ logins'[i].student_id = logins[i].student_id
            /\ logins'[i].login_time = logins[i].login_time
            /\ logins[i].logout_time # NULL =>
                   logins'[i].logout_time = logins[i].logout_time
            /\ logins'[i].logout_time # logins[i].logout_time =>
                   logins'[i].logout_time # NULL]_vars

\* A record closed in second 0 is still so after its student opened and
\* closed a later session in second 1.
C10_Witness ==
    /\ Len(logins) >= 2
    /\ logins[1].logout_time = <<0>>
    /\ \E i \in 2..Len(logins) :
           /\ logins[i].student_id = logins[1].student_id
           /\ logins[i].login_time = <<1>>
           /\ logins[i].logout_time = <<1>>

\* The rows of logins whose id is rid.
RowsWithId(rid) == {i \in 1..Len(logins) : logins[i].id = rid}

C11_Ordered ==
    \A i \in 1..Len(logins) :
        logins[i].logout_time # NULL => logins[i].logout_time[1] >= logins[i].login_time[1]

C11_OutAfterIn ==
    \A r \in Threads :
        (Write(r) /\ reqs[r].active_session # <<>>) =>
            \A i \in RowsWithId(reqs[r].active_session[1]) :
                /\ resp'[r].kind = "OUT"
                /\ resp'[r].time = logins'[i].logout_time
                /\ resp'[r].time[1] >= logins[i].login_time[1]

\* C11: the clock never goes backwards (Tick only advances it); then, for
\* every interleaving of requests, every login record with a logout timestamp
\* has logout >= login, and the time of a "checked OUT" answer is >= the
\* login time of the session it closes.
C11_LogoutNotBeforeLogin ==
    /\ []C11_Ordered
    /\ [][C11_OutAfterIn]_vars

\* A session opened in second 0 was closed in second 1 by a thread that
\* answered "checked OUT at 1".
C11_Witness ==
    \E i \in 1..Len(logins), r \in Threads :
        /\ logins[i].login_time = <<0>>
        /\ logins[i].logout_time = <<1>>
        /\ resp[r].kind = "OUT"
        /\ resp[r].time = <<1>>

\* What C12 compares: per record its id, its student and whether it is open.
Shape(tbl) ==
    [i \in 1..Len(tbl) |->
        [id |-> tbl[i].id, student_id |-> tbl[i].student_id,
         open |-> tbl[i].logout_time = NULL]]

\* C12: two runs that start from the same tables and process the same
\* sequence of identifiers one at a time have, whatever their clocks show,
\* the same login records per student with the same open/closed status, and
\* gave the same kind of answer to each request.
C12_SameOutcome ==
    /\ Shape(logins) = Shape(logins2)
    /\ \A r \in Threads : resp[r].kind = resp2[r].kind

\* The two runs closed a session at different times and opened another one.
C12_Witness ==
    /\ Len(logins) >= 2
    /\ logins[1].login_time = <<0>> /\ logins[1].logout_time = <<0>>
    /\ logins2[1].login_time = <<0>> /\ logins2[1].logout_time = <<1>>
    /\ logins[2].student_id = logins[1].student_id
    /\ logins[2].login_time = <<1>> /\ logins2[2].login_time = <<1>>

\* The open row of student sid with the highest id.
NewestOpenRow(sid) ==
    CHOOSE i \in OpenRows(sid) : \A j \in OpenRows(sid) : logins[j].id <= logins[i].id

\* C13: when a student has more than one open session, a check-in request
\* closes exactly the open record with the highest id; every other record,
\* the student's other open records included, stays as it was. A thread's
\* open-session query returns that highest id.
C13_ClosesNewest ==
    [][/\ \A r \in Threads, v \in FormValues :
            (checkin(r, v) /\ Signed(v) /\ Cardinality(OpenRows(v[1])) > 1) =>
                /\ logins' = [logins EXCEPT ![NewestOpenRow(v[1])].logout_time =
                                                <<clock \div TicksPerSecond>>]
                /\ Cardinality({i \in 1..Len(logins') :
                        logins'[i].student_id = v[1] /\ logins'[i].logout_time = NULL})
                     = Cardinality(OpenRows(v[1])) - 1
       /\ \A r \in Threads :
            (Query(r) /\ Cardinality(OpenRows(reqs[r].student_id[1])) > 1) =>
                reqs'[r].active_session =
                    <<logins[NewestOpenRow(reqs[r].student_id[1])].id>>]_vars

\* Two sessions were opened by racing threads; the next request closed the
\* newer one and the older one is still open.
C13_Witness ==
    \E v \in FormValues :
        /\ Signed(v)
        /\ nreq[v] = 3
        /\ Len(logins) = 2
        /\ logins[1].student_id = v[1] /\ logins[2].student_id = v[1]
        /\ logins[1].id < logins[2].id
        /\ logins[1].logout_time = NULL
        /\ logins[2].logout_time # NULL
        /\ resp[1].kind = "OUT"

\* C14: in every reachable state, for every interleaving of requests, the
\* student identifier of every login record is the identifier of a row of
\* students. (The insert itself checks nothing: only the handler's lookup
\* stands between an unknown identifier and the logins table.)
C14_NoOrphan ==
    \A i \in 1..Len(logins) :
        \E k \in 1..Len(students) : students[k].student_id = logins[i].student_id

\* Both students have login records, and an identifier that matches no
\* student (" 7", unstripped) has been requested.
C14_Witness ==
    /\ \E i, j \in 1..Len(logins) : logins[i].student_id # logins[j].student_id
    /\ \E v \in FormValues : v # None /\ ~Known(v) /\ nreq[v] >= 1

\* The data rows of the file (the header left out) whose identifier is sid.
FileRowsOf(sid) == {i \in 2..Len(file) : strip(Col(file[i], 3)) = sid}

\* The first of them.
FirstFileRow(sid) == CHOOSE i \in FileRowsOf(sid) : \A j \in FileRowsOf(sid) : i <= j

\* C15: the roster import leaves every row that is already in students as
\* it is, whatever the file says about that identifier, and adds for every
\* other identifier one row with the values of its first occurrence in the
\* file; later rows with the same identifier are skipped.
C15_FirstWins ==
    [][Boot =>
        /\ Len(students') >= Len(students)
        /\ SubSeq(students', 1, Len(students)) = students
        /\ \A i, j \in 1..Len(students') :
               students'[i].student_id = students'[j].student_id => i = j
        /\ ~ImportRaises(file) =>
              /\ \A i \in 2..Len(file) :
                     \E k \in 1..Len(students') :
                         students'[k].student_id = strip(Col(file[i], 3))
              /\ \A k \in (Len(students) + 1)..Len(students') :
                     LET row == file[FirstFileRow(students'[k].student_id)]
                     IN  /\ students'[k].first_name = strip(Col(row, 1))
                         /\ students'[k].last_name = strip(Col(row, 0))
                         /\ students'[k].waiver_signed = strip(Col(row, 10))]_vars

\* After two imports of a file whose two rows name the same identifier with
\* different names and flags, the only row has the values of the first.
C15_Witness ==
    /\ imports = 2
    /\ Len(file) = 3
    /\ ~ImportRaises(file)
    /\ strip(Col(file[2], 3)) = strip(Col(file[3], 3))
    /\ strip(Col(file[2], 1)) # strip(Col(file[3], 1))
    /\ strip(Col(file[2], 10)) # strip(Col(file[3], 10))
    /\ Len(students) = 1
    /\ students[1].first_name = strip(Col(file[2], 1))
    /\ students[1].waiver_signed = strip(Col(file[2], 10))

\* A thread whose query found session rid writes its own timestamp into that
\* record, open or not, creates nothing, touches no other record and
\* answers "checked OUT".
C16_EachWrites ==
    \A r \in Threads :
        (Write(r) /\ reqs[r].active_session # <<>>) =>
            /\ Len(logins') = Len(logins)
            /\ \A i \in 1..Len(logins) :
                   logins'[i] = IF logins[i].id = reqs[r].active_session[1]
                                THEN [logins[i] EXCEPT !.logout_time = reqs[r].now]
                                ELSE logins[i]
            /\ resp'[r].kind = "OUT"
            /\ resp'[r].time = reqs[r].now
            /\ \A q \in Threads \ {r} : reqs'[q] = reqs[q]

\* Two threads hold the same session from their queries: it is one open
\* record, and each of the two writes leaves the student without an open
\* session.
C16_SameRecord ==
    \A r, q \in Threads :
        (/\ r # q
         /\ reqs[r].pc \in {"queried", "stamped"}
         /\ reqs[q].pc \in {"queried", "stamped"}
         /\ reqs[r].student_id = reqs[q].student_id
         /\ reqs[r].active_session # <<>>
         /\ reqs[q].active_session # <<>>
         /\ Cardinality(OpenRows(reqs[r].student_id[1])) = 1) =>
            /\ reqs[r].active_session = reqs[q].active_session
            /\ \A i \in OpenRows(reqs[r].student_id[1]) :
                   logins[i].id = reqs[r].active_session[1]
            /\ Write(r) =>
                   {i \in 1..Len(logins') :
                        /\ logins'[i].student_id = reqs[r].student_id[1]
                        /\ logins'[i].logout_time = NULL} = {}

\* C16: two requests of a student with exactly one open session that both
\* ran the open-session query before either update both update that record
\* and both answer "checked OUT": the logout timestamp is written twice, the
\* later write staying, no session is created, and the student ends with no
\* open session.
C16_DoubleCheckout ==
    [][C16_EachWrites /\ C16_SameRecord]_vars

\* One check-in, then two racing check-outs: both answered "checked OUT",
\* the one stamped in second 1 wrote first and the one stamped in second 0
\* wrote last, so the only record of the student is closed at second 0.
C16_Witness ==
    \E v \in FormValues :
        /\ Signed(v)
        /\ nreq[v] = 3
        /\ Len(logins) = 1
        /\ logins[1].student_id = v[1]
        /\ logins[1].logout_time = <<0>>
        /\ \A r \in Threads : reqs[r].pc = "idle" /\ resp[r].kind = "OUT"
        /\ \E r \in Threads : resp[r].time = <<1>>

\* The student's open records in the next state.
OpenRowsNext(sid) ==
    {i \in 1..Len(logins') : logins'[i].student_id = sid /\ logins'[i].logout_time = NULL}

\* One request processed on its own for a waiver-signed student with k open
\* sessions: for k >= 1 it answers "checked OUT", closes the open record with
\* the highest id and no other, leaving k - 1 open; for k = 0 it answers
\* "checked IN" and adds one open record.
C17_Step ==
    \A r \in Threads, v \in FormValues :
        (checkin(r, v) /\ Signed(v)) =>
            IF OpenRows(v[1]) # {}
            THEN /\ resp'[r].kind = "OUT"
                 /\ Len(logins') = Len(logins)
                 /\ logins'[NewestOpenRow(v[1])].logout_time # NULL
                 /\ \A i \in 1..Len(logins) :
                        i # NewestOpenRow(v[1]) => logins'[i] = logins[i]
                 /\ OpenRowsNext(v[1]) = OpenRows(v[1]) \ {NewestOpenRow(v[1])}
                 /\ \A i \in OpenRowsNext(v[1]) :
                        logins[i].id < logins[NewestOpenRow(v[1])].id
                 /\ Cardinality(OpenRows(v[1])) = 1 => OpenRowsNext(v[1]) = {}
            ELSE /\ resp'[r].kind = "IN"
                 /\ Len(logins') = Len(logins) + 1
                 /\ OpenRowsNext(v[1]) = {Len(logins')}

\* C17: from k >= 1 open sessions of a waiver-signed student, the next k
\* requests for that student processed one at a time all answer
\* "checked OUT" and close the open records in descending id order, after
\* which the student has no open session; the request after them answers
\* "checked IN".
C17_Drain ==
    [][C17_Step]_vars

\* Two racing requests opened records 1 and 2 of one student; three requests
\* processed one at a time followed: record 2 was closed in second 0, record
\* 1 in second 1, and the last of them opened record 3 and answered
\* "checked IN".
C17_Witness ==
    \E v \in FormValues :
        /\ Signed(v)
        /\ nreq[v] = 5
        /\ Len(logins) = 3
        /\ \A i \in 1..3 : logins[i].student_id = v[1] /\ logins[i].id = i
        /\ logins[2].logout_time = <<0>>
        /\ logins[1].logout_time = <<1>>
        /\ logins[3].logout_time = NULL
        /\ resp[1].kind = "IN"
        /\ \A r \in Threads : reqs[r].pc = "idle"

\* C18: record_logout(student_id) changes the logins table as the handler's
\* check-out branch does when run on its own: with an open session of the
\* student it sets the logout timestamp of the open record with the highest
\* id and of no other record, with none it changes nothing; and
\* record_login(student_id) changes it as the check-in branch does, adding
\* exactly one open record.
C18_HelpersAsBranches ==
    [][\A sid \in HelperArgs :
          /\ record_logout(sid) =>
                logins' = IF SelectActive(logins, sid) = <<>> THEN logins
                          ELSE UpdateLogout(logins, SelectActive(logins, sid)[1],
                                            IsoSeconds(clock))
          /\ record_login(sid) =>
                logins' = InsertLogin(logins, sid, IsoSeconds(clock))]_vars

\* record_logout was called for a student with an open session on a library
\* without the ORDER BY / LIMIT tail: it raised and the session is still open.
C18_Witness ==
    /\ ret.call = "record_logout"
    /\ ret.raised
    /\ sqlite_limit = "off"
    /\ OpenRows(<<"7">>) # {}

====
